---- MODULE Spec2Model ----
(***************************************************************************)
(* A model of datachart's attribute layer (utils/attrs.py) and of the      *)
(* chart orchestration built on it (utils/charts.py).                      *)
(*                                                                         *)
(* Python values are modelled as strings: None is "None", True / False are *)
(* "True" / "False", every other value is a string naming it.  A mapping   *)
(* (dict, Config) is a function whose DOMAIN is its key set.  The outcome  *)
(* of a call is a record [kind, value]: kind "return" with the returned    *)
(* value, or kind "raise" with the exception.                              *)
(***************************************************************************)
EXTENDS Integers, Sequences, FiniteSets, TLC

VARIABLES
    config,        \* the process-wide global configuration (path -> value)
    hash_seed,     \* the salt of str hashes, drawn once when the process starts
    fn,            \* the function of utils/attrs.py under call
    args,          \* its arguments
    ret,           \* its outcome, NotCalled before the call
    ax_calls,      \* calls made on the plot area passed to a configurator
    warned,        \* warnings emitted by the call
    wrapper_attrs, \* top-level attributes of the draw call (attrs of wrapper)
    drawer,        \* the chart-type drawer chart_wrapper wraps
    pc,            \* position of the draw call in chart_wrapper
    charts,        \* the normalised chart sequence
    subplot_config, \* the layout computed for the draw call
    axes,          \* the plot area of each series, as passed to the drawer
    visible,       \* plot areas switched on
    backend,       \* calls made into the plotting backend, in order
    chart_config,  \* the drawing-config handed to the drawer
    color_cycle,   \* the color cycle the drawer indexes
    writes,        \* item assignments made by the drawer: [target, key, value]
    error          \* the exception that ended the draw call, None if none

attrVars == <<fn, args, ret, ax_calls>>

drawVars == <<wrapper_attrs, drawer, pc, charts, subplot_config, axes, visible, backend,
              chart_config, color_cycle, writes, error>>

procVars == <<config, hash_seed>>

vars == <<procVars, warned, attrVars, drawVars>>

(***************************************************************************)
(* Bounds of the input space.                                              *)
(***************************************************************************)
MaxKeys == 2       \* attribute names offered to a direct get_attr_value call
MaxDev == 2        \* entries in which style and configuration leave their templates
MaxCharts == 10    \* largest chart count given to the layout calculator
MaxCols == 5       \* largest maximum-column count given to it
MinArg == 2        \* the layout calculator is also given arguments down to -MinArg
MaxTicks == 2      \* longest tick-position / tick-label list
MaxSeries == 3     \* most series in the charts list of a draw call
MaxDrawCols == 2   \* largest explicit max_cols attribute of a draw call

(***************************************************************************)
(* Python values and outcomes.                                             *)
(***************************************************************************)
NoneVal == "None"

NotCalled == [kind |-> "pending", value |-> NoneVal]

Return(v) == [kind |-> "return", value |-> v]

Raise(e) == [kind |-> "raise", value |-> e]

EmptyDict == [k \in {} |-> NoneVal]

\* dict.get(key, default)
DictGet(d, key, default) == IF key \in DOMAIN d THEN d[key] ELSE default

\* d[key]: the value, or a KeyError naming the key
DictItem(d, key) == IF key \in DOMAIN d THEN Return(d[key]) ELSE Raise("KeyError")

\* Config.__getitem__: the configuration is queried by exact key and a key
\* it does not hold is a missing-key error
ConfigItem(c, key) == DictItem(c, key)

\* Config.get(key, default)
ConfigGet(c, key, default) == DictGet(c, key, default)

(***************************************************************************)
(* get_attr_value.  The default is a record [type, map, val]: type         *)
(* "Config" or "dict" with its mapping, or "scalar" (a str, number, bool   *)
(* or None) with its value.  Python evaluates the argument default[attr]   *)
(* before obj.get is called.                                               *)
(***************************************************************************)
ConfigDefault(c) == [type |-> "Config", map |-> c, val |-> NoneVal]

DictDefault(d) == [type |-> "dict", map |-> d, val |-> NoneVal]

ScalarDefault(v) == [type |-> "scalar", map |-> EmptyDict, val |-> v]

get_attr_value_swallow(attr, obj, default) ==
    IF default.type \in {"Config", "dict"}
    THEN Return(DictGet(obj, attr, DictGet(default.map, attr, NoneVal)))
    ELSE Return(DictGet(obj, attr, default.val))

get_attr_value(attr, obj, default) ==
    IF default.type \in {"Config", "dict"}
    THEN LET fallback == IF default.type = "Config"
                         THEN ConfigItem(default.map, attr)
                         ELSE DictItem(default.map, attr)
         IN  IF fallback.kind = "raise" THEN fallback
             ELSE Return(DictGet(obj, attr, fallback.value))
    ELSE Return(DictGet(obj, attr, default.val))

(***************************************************************************)
(* create_config_dict: a dict comprehension over the (key, attr) pairs in  *)
(* list order; the first lookup that raises ends it, a pair whose value is *)
(* None is left out, a later pair with the same key overwrites.            *)
(***************************************************************************)
Min(S) == CHOOSE x \in S : \A y \in S : x <= y

Max(S) == CHOOSE x \in S : \A y \in S : x >= y

create_config_dict_keep_none(styles, attrs) ==
    LET res(i) == get_attr_value(attrs[i][2], styles, ConfigDefault(config))
        raised == {i \in DOMAIN attrs : res(i).kind = "raise"}
        kept   == DOMAIN attrs
        keys   == {attrs[i][1] : i \in kept}
    IN  IF raised # {} THEN res(Min(raised))
        ELSE Return([k \in keys |->
                        res(Max({i \in kept : attrs[i][1] = k})).value])

create_config_dict(styles, attrs) ==
    LET res(i) == get_attr_value(attrs[i][2], styles, ConfigDefault(config))
        raised == {i \in DOMAIN attrs : res(i).kind = "raise"}
        kept   == {i \in DOMAIN attrs : res(i).kind = "return"
                                        /\ res(i).value # NoneVal}
        keys   == {attrs[i][1] : i \in kept}
    IN  IF raised # {} THEN res(Min(raised))
        ELSE Return([k \in keys |->
                        res(Max({i \in kept : attrs[i][1] = k})).value])

(***************************************************************************)
(* The (argument-name, configuration-path) lists of the style builders.    *)
(***************************************************************************)
line_attrs ==
    << <<"color", "plot.line.color">>,
       <<"alpha", "plot.line.alpha">>,
       <<"linewidth", "plot.line.width">>,
       <<"linestyle", "plot.line.style">>,
       <<"marker", "plot.line.marker">>,
       <<"drawstyle", "plot.line.drawstyle">>,
       <<"zorder", "plot.line.zorder">> >>

bar_attrs(is_horizontal) ==
    << <<"color", "plot.bar.color">>,
       <<"alpha", "plot.bar.alpha">>,
       <<IF is_horizontal THEN "height" ELSE "width", "plot.bar.width">>,
       <<"hatch", "plot.bar.hatch">>,
       <<"linewidth", "plot.bar.edge.width">>,
       <<"edgecolor", "plot.bar.edge.color">>,
       <<"ecolor", "plot.bar.error.color">>,
       <<"zorder", "plot.bar.zorder">> >>

hist_attrs ==
    << <<"color", "plot.hist.color">>,
       <<"alpha", "plot.hist.alpha">>,
       <<"fill", "plot.hist.fill">>,
       <<"hatch", "plot.hist.hatch">>,
       <<"zorder", "plot.hist.zorder">>,
       <<"histtype", "plot.hist.type">>,
       <<"align", "plot.hist.align">>,
       <<"linewidth", "plot.hist.edge.width">>,
       <<"edgecolor", "plot.hist.edge.color">> >>

area_attrs ==
    << <<"alpha", "plot.area.alpha">>,
       <<"color", "plot.area.color">>,
       <<"linewidth", "plot.area.line.width">>,
       <<"hatch", "plot.area.hatch">>,
       <<"zorder", "plot.area.zorder">> >>

grid_attrs ==
    << <<"alpha", "plot.grid.alpha">>,
       <<"color", "plot.grid.color">>,
       <<"linewidth", "plot.grid.line.width">>,
       <<"linestyle", "plot.grid.line.style">>,
       <<"zorder", "plot.grid.zorder">> >>

legend_attrs ==
    << <<"shadow", "plot.legend.shadow">>,
       <<"frameon", "plot.legend.frameon">>,
       <<"fontsize", "plot.legend.font.size">>,
       <<"alignment", "plot.legend.alignment">>,
       <<"title_fontsize", "plot.legend.title.size">>,
       <<"labelcolor", "plot.legend.label.color">> >>

\* the text builder's paths are templates "font.{type}.<suffix>": a pair
\* <<key, <<text before {type}, text after it>> >>
text_attrs ==
    << <<"fontsize", <<"font.", ".size">> >>,
       <<"fontweight", <<"font.", ".weight">> >>,
       <<"color", <<"font.", ".color">> >>,
       <<"style", <<"font.", ".style">> >>,
       <<"family", <<"font.", ".family">> >> >>

\* str.format(type=...) on such a template
Format(template, type) == template[1] \o type \o template[2]

(***************************************************************************)
(* The style builders.                                                     *)
(***************************************************************************)
get_line_style(chart_style) == create_config_dict(chart_style, line_attrs)

get_bar_style(chart_style, is_horizontal) ==
    create_config_dict(chart_style, bar_attrs(is_horizontal))

get_hist_style(chart_style) == create_config_dict(chart_style, hist_attrs)

get_area_style(chart_style) == create_config_dict(chart_style, area_attrs)

get_grid_style(chart_style) == create_config_dict(chart_style, grid_attrs)

get_legend_style == create_config_dict(EmptyDict, legend_attrs)

get_text_style(text_type) ==
    Return([k \in {text_attrs[i][1] : i \in DOMAIN text_attrs} |->
        LET i == Max({j \in DOMAIN text_attrs : text_attrs[j][1] = k})
        IN  ConfigGet(config, Format(text_attrs[i][2], text_type),
                      ConfigGet(config, Format(text_attrs[i][2], "general"),
                                NoneVal))])

(***************************************************************************)
(* get_subplot_config.  n_charts / max_cols is Python's true division and  *)
(* math.ceil its ceiling; % takes the sign of the divisor.                 *)
(***************************************************************************)
FloorDiv(a, b) == IF b > 0 THEN a \div b ELSE (-a) \div (-b)

\* math.ceil(a / b), b # 0
CeilDiv(a, b) == -FloorDiv(-a, b)

\* a % b, b # 0
PyMod(a, b) == a - b * FloorDiv(a, b)

Layout(nrows, ncols) == [nrows |-> nrows, ncols |-> ncols]

\* utils/attrs.py of the datachart package: the arguments are asserted
get_subplot_config_unchecked(subplots, n_charts, max_cols) ==
    IF ~subplots THEN Return(Layout(1, 1))
    ELSE IF max_cols = 0 THEN Raise("ZeroDivisionError")
    ELSE Return(Layout(CeilDiv(n_charts, max_cols),
                       IF n_charts >= max_cols THEN max_cols
                       ELSE PyMod(n_charts, max_cols)))

get_subplot_config_floor(subplots, n_charts, max_cols) ==
    IF ~subplots THEN Return(Layout(1, 1))
    ELSE IF ~(n_charts > 0) THEN Raise("AssertionError")
    ELSE IF ~(max_cols > 0) THEN Raise("AssertionError")
    ELSE Return(Layout(FloorDiv(n_charts, max_cols),
                       IF n_charts >= max_cols THEN max_cols
                       ELSE PyMod(n_charts, max_cols)))

get_subplot_config(subplots, n_charts, max_cols) ==
    IF ~subplots THEN Return(Layout(1, 1))
    ELSE IF ~(n_charts > 0) THEN Raise("AssertionError")
    ELSE IF ~(max_cols > 0) THEN Raise("AssertionError")
    ELSE Return(Layout(CeilDiv(n_charts, max_cols),
                       IF n_charts >= max_cols THEN max_cols
                       ELSE PyMod(n_charts, max_cols)))

\* src/utils/attrs.py, the copy utils/charts.py imports: no assertion
get_subplot_config_src(subplots, n_charts, max_cols) ==
    IF ~subplots THEN Return(Layout(1, 1))
    ELSE IF max_cols = 0 THEN Raise("ZeroDivisionError")
    ELSE Return(Layout(CeilDiv(n_charts, max_cols),
                       IF n_charts >= max_cols THEN max_cols
                       ELSE PyMod(n_charts, max_cols)))

(***************************************************************************)
(* configure_axis_ticks_position.  A tick list is a record [isNone,        *)
(* items]; chart.get(key, None) of a key the chart lacks is None.  The     *)
(* outcome of one axis is the calls it makes on the plot area and the      *)
(* warnings it emits.                                                      *)
(***************************************************************************)
NoneList == [isNone |-> TRUE, items |-> <<>>]

List(s) == [isNone |-> FALSE, items |-> s]

tick_attrs ==
    << <<"xticks", "xticklabels", "xaxis">>,
       <<"yticks", "yticklabels", "yaxis">> >>

TickCall(attrs, ticks, labels) ==
    [func |-> IF attrs[3] = "xaxis" THEN "set_xticks" ELSE "set_yticks",
     ticks |-> ticks.items, labels |-> labels]

TickEffect(calls, warns) == [calls |-> calls, warns |-> warns]

\* one iteration of the loop over tick_attrs
configure_one_axis_keep_labels(chart, attrs) ==
    LET ticks      == DictGet(chart, attrs[1], NoneList)
        ticklabels == DictGet(chart, attrs[2], NoneList)
    IN  IF ticks.isNone /\ ~ticklabels.isNone
        THEN TickEffect(<<>>, << <<"labels without ticks", attrs[1], attrs[2]>> >>)
        ELSE IF ~ticks.isNone
        THEN IF ticklabels.isNone
             THEN TickEffect(<<TickCall(attrs, ticks, NoneList)>>, <<>>)
             ELSE IF Len(ticks.items) # Len(ticklabels.items)
             THEN TickEffect(<<TickCall(attrs, ticks, ticklabels)>>,
                             << <<"different lengths", attrs[1], attrs[2]>> >>)
             ELSE TickEffect(<<TickCall(attrs, ticks, ticklabels)>>, <<>>)
        ELSE TickEffect(<<>>, <<>>)

configure_one_axis(chart, attrs) ==
    LET ticks      == DictGet(chart, attrs[1], NoneList)
        ticklabels == DictGet(chart, attrs[2], NoneList)
    IN  IF ticks.isNone /\ ~ticklabels.isNone
        THEN TickEffect(<<>>, << <<"labels without ticks", attrs[1], attrs[2]>> >>)
        ELSE IF ~ticks.isNone
        THEN IF ticklabels.isNone
             THEN TickEffect(<<TickCall(attrs, ticks, NoneList)>>, <<>>)
             ELSE IF Len(ticks.items) # Len(ticklabels.items)
             THEN TickEffect(<<TickCall(attrs, ticks, NoneList)>>,
                             << <<"different lengths", attrs[1], attrs[2]>> >>)
             ELSE TickEffect(<<TickCall(attrs, ticks, ticklabels)>>, <<>>)
        ELSE TickEffect(<<>>, <<>>)

\* the whole loop: the x axis, then the y axis
configure_axis_ticks_position(chart) ==
    LET x == configure_one_axis(chart, tick_attrs[1])
        y == configure_one_axis(chart, tick_attrs[2])
    IN  TickEffect(x.calls \o y.calls, x.warns \o y.warns)

(***************************************************************************)
(* The inputs.  The global configuration is initialised before any call    *)
(* and holds, in its template, every path the builders read; a series      *)
(* style is empty or fully specified in its template.  A call is given a   *)
(* configuration and a style that leave their templates in at most MaxDev  *)
(* entries together: an entry is dropped, set to None, or set.             *)
(***************************************************************************)
Range(seq) == {seq[i] : i \in DOMAIN seq}

PathsOf(attrs) == {attrs[i][2] : i \in DOMAIN attrs}

TextTypes == {"", "title", "subtitle", "xlabel", "ylabel"}

FontPaths(types) ==
    {Format(text_attrs[i][2], t) : i \in DOMAIN text_attrs, t \in types}

AllPaths ==
    PathsOf(line_attrs) \cup PathsOf(bar_attrs(FALSE)) \cup PathsOf(hist_attrs)
    \cup PathsOf(area_attrs) \cup PathsOf(grid_attrs) \cup PathsOf(legend_attrs)
    \cup FontPaths((TextTypes \ {""}) \cup {"general"})
    \cup {"color.general.singular", "color.general.multiple"}

FullConfig == [p \in AllPaths |-> "config:" \o p]

FullStyle == [p \in AllPaths |-> "style:" \o p]

DevStates == {"absent", "none", "value"}

SubsetsUpTo(P, n) == {D \in SUBSET P : Cardinality(D) <= n}

\* the mapping with the entries of full at the paths of base, changed at
\* the paths of D as a says
Variant(full, base, D, a) ==
    [p \in (base \ {q \in D : a[q] = "absent"}) \cup {q \in D : a[q] # "absent"} |->
        IF p \in D /\ a[p] = "none" THEN NoneVal ELSE full[p]]

Variants(full, base, P, n) ==
    UNION {{Variant(full, base, D, a) : a \in [D -> DevStates]} :
             D \in SubsetsUpTo(P, n)}

Styles(P, n) == Variants(FullStyle, {}, P, n) \cup Variants(FullStyle, P, P, n)

Configs(P, n) == Variants(FullConfig, AllPaths, P, n)

\* attribute names, mappings and defaults of a direct get_attr_value call
AttrNames == {"attr" \o ToString(i) : i \in 1..MaxKeys}

Mappings(tag) ==
    Variants([k \in AttrNames |-> tag \o k], {}, AttrNames, MaxKeys)

Scalars == {"x", "0", "True", "False", NoneVal}

Defaults ==
    {ConfigDefault(m) : m \in Mappings("config:")}
    \cup {DictDefault(m) : m \in Mappings("dict:")}
    \cup {ScalarDefault(v) : v \in Scalars}

\* tick positions and labels of a chart: absent, None, or a list
TickLists(item) ==
    {NoneList} \cup {List([i \in 1..n |-> item \o ToString(i)]) : n \in 0..MaxTicks}

TickKeys == {"xticks", "xticklabels", "yticks", "yticklabels"}

TickCharts ==
    UNION {{[k \in D |-> IF a[k] = 0 THEN NoneList
                         ELSE List([i \in 1..(a[k] - 1) |-> k \o ToString(i)])] :
              a \in [D -> 0..(MaxTicks + 1)]} : D \in SUBSET TickKeys}

StyleBuilders ==
    {"get_line_style", "get_bar_style", "get_hist_style", "get_area_style",
     "get_grid_style"}

BuilderAttrs(f, is_horizontal) ==
    CASE f = "get_line_style" -> line_attrs
      [] f = "get_bar_style" -> bar_attrs(is_horizontal)
      [] f = "get_hist_style" -> hist_attrs
      [] f = "get_area_style" -> area_attrs
      [] f = "get_grid_style" -> grid_attrs
      [] f = "get_legend_style" -> legend_attrs

\* no draw call is under way
DrawIdle ==
    /\ wrapper_attrs = EmptyDict
    /\ drawer = NoneVal
    /\ pc = "idle"
    /\ charts = <<>>
    /\ subplot_config = Layout(0, 0)
    /\ axes = <<>>
    /\ visible = {}
    /\ backend = <<>>
    /\ chart_config = EmptyDict
    /\ color_cycle = [color_name |-> NoneVal, max_colors |-> 0]
    /\ writes = <<>>
    /\ error = NoneVal

InitIdle ==
    /\ hash_seed = 0
    /\ ret = NotCalled
    /\ ax_calls = <<>>
    /\ warned = <<>>
    /\ DrawIdle

InitAttr ==
    /\ fn = "get_attr_value"
    /\ config = FullConfig
    /\ \E attr \in AttrNames, obj \in Mappings("obj:"), default \in Defaults :
          args = [attr |-> attr, obj |-> obj, default |-> default]

InitBuilder ==
    /\ fn \in StyleBuilders
    /\ \E h \in (IF fn = "get_bar_style" THEN BOOLEAN ELSE {FALSE}) :
       \E dc \in 0..MaxDev :
          /\ config \in Configs(PathsOf(BuilderAttrs(fn, h)), dc)
          /\ \E st \in Styles(PathsOf(BuilderAttrs(fn, h)), MaxDev - dc) :
                args = [chart_style |-> st, is_horizontal |-> h]

InitLegend ==
    /\ fn = "get_legend_style"
    /\ config \in Configs(PathsOf(legend_attrs), MaxDev)
    /\ args = EmptyDict

InitText ==
    /\ fn = "get_text_style"
    /\ \E t \in TextTypes :
          /\ config \in Configs(FontPaths({t, "general"}) \cap AllPaths, MaxDev)
          /\ args = [text_type |-> t]

InitLayout ==
    /\ fn \in {"get_subplot_config", "get_subplot_config_src"}
    /\ config = FullConfig
    /\ \E s \in BOOLEAN, n \in (-MinArg)..MaxCharts, m \in (-MinArg)..MaxCols :
          args = [subplots |-> s, n_charts |-> n, max_cols |-> m]

InitTicks ==
    /\ fn = "configure_axis_ticks_position"
    /\ config = FullConfig
    /\ \E chart \in TickCharts : args = [chart |-> chart]

Init ==
    /\ InitIdle
    /\ \/ InitAttr
       \/ InitBuilder
       \/ InitLegend
       \/ InitText
       \/ InitLayout
       \/ InitTicks

(***************************************************************************)
(* The calls.                                                              *)
(***************************************************************************)
Pending(f) == fn = f /\ ret.kind = "pending"

Returns(r) ==
    /\ ret' = r
    /\ UNCHANGED <<procVars, fn, args, ax_calls, warned, drawVars>>

CallGetAttrValue ==
    /\ Pending("get_attr_value")
    /\ Returns(get_attr_value(args.attr, args.obj, args.default))

CallGetLineStyle ==
    /\ Pending("get_line_style")
    /\ Returns(get_line_style(args.chart_style))

CallGetBarStyle ==
    /\ Pending("get_bar_style")
    /\ Returns(get_bar_style(args.chart_style, args.is_horizontal))

CallGetHistStyle ==
    /\ Pending("get_hist_style")
    /\ Returns(get_hist_style(args.chart_style))

CallGetAreaStyle ==
    /\ Pending("get_area_style")
    /\ Returns(get_area_style(args.chart_style))

CallGetGridStyle ==
    /\ Pending("get_grid_style")
    /\ Returns(get_grid_style(args.chart_style))

CallGetLegendStyle ==
    /\ Pending("get_legend_style")
    /\ Returns(get_legend_style)

CallGetTextStyle ==
    /\ Pending("get_text_style")
    /\ Returns(get_text_style(args.text_type))

CallGetSubplotConfig ==
    /\ Pending("get_subplot_config")
    /\ Returns(get_subplot_config(args.subplots, args.n_charts, args.max_cols))

CallGetSubplotConfigSrc ==
    /\ Pending("get_subplot_config_src")
    /\ Returns(get_subplot_config_src(args.subplots, args.n_charts, args.max_cols))

CallConfigureAxisTicksPosition ==
    /\ Pending("configure_axis_ticks_position")
    /\ LET effect == configure_axis_ticks_position(args.chart)
       IN  /\ ax_calls' = effect.calls
           /\ warned' = effect.warns
    /\ ret' = Return(NoneVal)
    /\ UNCHANGED <<procVars, fn, args, drawVars>>

Next ==
    \/ CallGetAttrValue
    \/ CallGetLineStyle
    \/ CallGetBarStyle
    \/ CallGetHistStyle
    \/ CallGetAreaStyle
    \/ CallGetGridStyle
    \/ CallGetLegendStyle
    \/ CallGetTextStyle
    \/ CallGetSubplotConfig
    \/ CallGetSubplotConfigSrc
    \/ CallConfigureAxisTicksPosition

Spec == Init /\ [][Next]_vars

(***************************************************************************)
(* utils/charts.py.  A draw call is chart_wrapper(func)(attrs).  The       *)
(* top-level attributes are a mapping: "charts" holds a record [type,      *)
(* items] (a dict is the one chart it is, a list its charts, any other     *)
(* object the object), "max_cols" an integer, every other key a string.    *)
(* A chart is a mapping; of its keys the wrapper reads "subtitle",         *)
(* "xlabel" and "ylabel".  The plotting backend is external: the model     *)
(* keeps the calls made into it, [call, ax, arg], in order, plot areas     *)
(* numbered row by row from 1 (ax 0: a call on no plot area).              *)
(***************************************************************************)
DefaultMaxCols == 4

\* the truth value of a Python value in a condition
Truthy(v) == v \notin {NoneVal, "False", "0", ""}

Entry(call, ax, arg) == [call |-> call, ax |-> ax, arg |-> arg]

RECURSIVE Concat(_, _)
\* the sequences f[1], ..., f[n] one after the other
Concat(f, n) == IF n = 0 THEN <<>> ELSE Concat(f, n - 1) \o f[n]

IsStructured_any(c) == TRUE

\* isinstance(attrs["charts"], dict) or isinstance(attrs["charts"], list)
IsStructured(c) == c.type \in {"dict", "list"}

\* charts if isinstance(charts, list) else [charts]
Normalise(c) == c.items

\* the drawing-config keys, in the order chart_wrapper builds the dict
chart_config_keys ==
    <<"as_subplots", "grid", "yerr", "area", "orientation", "n_bins">>

\* the chart_config argument chart_wrapper hands to func
ChartConfig(a) ==
    [k \in Range(chart_config_keys) |->
        CASE k = "as_subplots" -> DictGet(a, "as_subplots", "False")
          [] k = "grid" -> DictGet(a, "show_grid", NoneVal)
          [] k = "yerr" -> DictGet(a, "show_yerr", NoneVal)
          [] k = "area" -> DictGet(a, "show_area", NoneVal)
          [] k = "orientation" -> DictGet(a, "orientation", NoneVal)
          [] k = "n_bins" -> DictGet(a, "n_bins", NoneVal)]

supported_chart_config(d) ==
    CASE d = "line" -> {"as_subplots", "grid", "yerr", "area"}
      [] d = "bar" -> {"as_subplots", "grid", "yerr", "orientation"}
      [] d = "hist" -> {"as_subplots", "grid", "n_bins", "orientation"}

assert_chart_config_any_value(cfg, supported) ==
    SelectSeq(chart_config_keys,
              LAMBDA key : key \in DOMAIN cfg /\ key \notin supported)

\* the keys assert_chart_config warns about, one warning each, in the
\* order of the dict
assert_chart_config(cfg, supported) ==
    SelectSeq(chart_config_keys,
              LAMBDA key : /\ key \in DOMAIN cfg
                           /\ key \notin supported
                           /\ Truthy(cfg[key]))

(***************************************************************************)
(* hash(json.dumps(chart, sort_keys=True)).  A dict keeps its keys in      *)
(* insertion order: here it is a sequence of <<key, value>> pairs, a value *)
(* being [t |-> "str", v |-> the string], [t |-> "dict", v |-> the pairs]  *)
(* or [t |-> "list", v |-> the values].  The serialisation is the sequence *)
(* of its tokens.  hash of a str is salted once per process (hash_seed)    *)
(* and is the same for equal strings after that.                           *)
(***************************************************************************)
Str(s) == [t |-> "str", v |-> s]

Dict(pairs) == [t |-> "dict", v |-> pairs]

JsonList(items) == [t |-> "list", v |-> items]

\* the keys charts are written with, in the order Python sorts strings
KeyOrder ==
    <<"cumulative", "data", "density", "label", "plot.area.color",
      "plot.bar.color", "plot.bar.width", "plot.hist.color", "plot.line.alpha",
      "plot.line.color", "plot.line.drawstyle", "style", "subtitle", "x",
      "xlabel", "y", "yerr", "ylabel">>

KeyRanks ==
    [k \in {KeyOrder[i] : i \in DOMAIN KeyOrder} |->
        CHOOSE i \in DOMAIN KeyOrder : KeyOrder[i] = k]

KeyRank(k) == KeyRanks[k]

RECURSIVE SortedByKey(_)
\* sorted(d.items()): the pairs by ascending key
SortedByKey(pairs) ==
    IF pairs = <<>> THEN <<>>
    ELSE LET m == CHOOSE i \in DOMAIN pairs :
                     \A j \in DOMAIN pairs : KeyRank(pairs[i][1]) <= KeyRank(pairs[j][1])
             rest == [j \in 1..(Len(pairs) - 1) |->
                         IF j < m THEN pairs[j] ELSE pairs[j + 1]]
         IN  <<pairs[m]>> \o SortedByKey(rest)

RECURSIVE json_dumps_unsorted(_, _)
json_dumps_unsorted(value, sort_keys) ==
    CASE value.t = "str" -> <<value.v>>
      [] value.t = "list" ->
            <<"[">>
            \o Concat([i \in DOMAIN value.v |->
                          json_dumps_unsorted(value.v[i], sort_keys)], Len(value.v))
            \o <<"]">>
      [] value.t = "dict" ->
            <<"{">>
            \o Concat([i \in DOMAIN value.v |->
                          <<value.v[i][1], ":">>
                          \o json_dumps_unsorted(value.v[i][2], sort_keys)],
                      Len(value.v))
            \o <<"}">>

RECURSIVE json_dumps(_, _)
\* json.dumps(value, sort_keys=sort_keys): with sort_keys the items of every
\* dict, at every depth, are written by ascending key
json_dumps(value, sort_keys) ==
    CASE value.t = "str" -> <<value.v>>
      [] value.t = "list" ->
            <<"[">>
            \o Concat([i \in DOMAIN value.v |->
                          json_dumps(value.v[i], sort_keys)], Len(value.v))
            \o <<"]">>
      [] value.t = "dict" ->
            LET items == IF sort_keys THEN SortedByKey(value.v) ELSE value.v
            IN  <<"{">>
                \o Concat([i \in DOMAIN items |->
                              <<items[i][1], ":">>
                              \o json_dumps(items[i][2], sort_keys)], Len(items))
                \o <<"}">>

\* the strings a serialisation is made of, each with a code of its own
Alphabet ==
    KeyOrder \o <<"{", "}", "[", "]", ":", "1", "2", "3", "a", "b", "red",
                  "blue", "steps-mid", "Subtitle", "0.5">>

TokenCodes ==
    [t \in {Alphabet[i] : i \in DOMAIN Alphabet} |->
        Min({i \in DOMAIN Alphabet : Alphabet[i] = t})]

TokenCode(t) == IF t \in DOMAIN TokenCodes THEN TokenCodes[t] ELSE 0

HashWidth == 16

RECURSIVE HashUpTo(_, _, _)
\* the hash of the first n tokens
HashUpTo(tokens, seed, n) ==
    IF n = 0 THEN seed
    ELSE (HashUpTo(tokens, seed, n - 1) * 31 + TokenCode(tokens[n]))
         % (2 ^ HashWidth)

\* hash(s) of a str s under the process's salt
StrHash(tokens, seed) == HashUpTo(tokens, seed, Len(tokens))

\* chart_hash = hash(json.dumps(chart, sort_keys=True))
chart_hash(chart, seed) == StrHash(json_dumps(chart, TRUE), seed)

\* the place in a cycle of max_colors colors a hash indexes
CycleIndex(h, max_colors) == h % max_colors

ColorCycle(color_name, max_colors) ==
    [color_name |-> color_name, max_colors |-> max_colors]

custom_color_cycle_swapped(as_subplots, n_charts) ==
    LET color_name == IF as_subplots
                      THEN ConfigItem(config, "color.general.multiple")
                      ELSE ConfigItem(config, "color.general.singular")
    IN  IF color_name.kind = "raise" THEN color_name
        ELSE Return(ColorCycle(color_name.value,
                               IF as_subplots THEN n_charts ELSE 1))

\* custom_color_cycle: the cycle is create_color_cycle(color_name,
\* max_colors), kept as the two arguments it is made from
custom_color_cycle(as_subplots, n_charts) ==
    LET color_name == IF as_subplots
                      THEN ConfigItem(config, "color.general.singular")
                      ELSE ConfigItem(config, "color.general.multiple")
    IN  IF color_name.kind = "raise" THEN color_name
        ELSE Return(ColorCycle(color_name.value,
                               IF as_subplots THEN 1 ELSE n_charts))

\* color_cycle[chart_hash]: the color-cycle place of a series whose
\* specification is chart, in a draw call of the given mode and series count
color_index(chart, as_subplots, n_charts, seed) ==
    LET cycle == custom_color_cycle(as_subplots, n_charts)
    IN  IF cycle.kind = "raise" THEN cycle
        ELSE Return(CycleIndex(chart_hash(chart, seed), cycle.value.max_colors))

(***************************************************************************)
(* Series specifications as written: the same three entries (data given as *)
(* one per-point mapping, a style, a subtitle) in every order of the keys  *)
(* of the chart, of the style and of the data point.                       *)
(***************************************************************************)
Seeds == {0, 7}

\* the orderings of the elements of a sequence
Perms(seq) ==
    {[i \in DOMAIN seq |-> seq[p[i]]] :
        p \in {q \in [DOMAIN seq -> DOMAIN seq] :
                  \A i, j \in DOMAIN seq : q[i] = q[j] => i = j}}

PointsWritten == Perms(<< <<"x", Str("1")>>, <<"y", Str("2")>> >>)

StylesWritten ==
    Perms(<< <<"plot.line.color", Str("red")>>, <<"plot.line.alpha", Str("0.5")>> >>)

ChartsWritten ==
    UNION {Perms(<< <<"data", JsonList(<<Dict(pt)>>)>>,
                    <<"style", Dict(st)>>,
                    <<"subtitle", Str(sub)>> >>) :
             pt \in PointsWritten, st \in StylesWritten, sub \in {"a", "b"}}

InitColor ==
    /\ InitIdle
    /\ config = FullConfig
    /\ fn = "color_index"
    /\ \E c1, c2 \in ChartsWritten, s \in BOOLEAN, n \in 1..MaxSeries,
          seed1 \in Seeds :
          /\ hash_seed = seed1
          /\ args = [chart |-> Dict(c1), other |-> Dict(c2), as_subplots |-> s,
                     n_charts |-> n]

\* two series, in one draw call or in two of the same mode and series count
CallColorIndex ==
    /\ Pending("color_index")
    /\ LET first  == color_index(args.chart, args.as_subplots, args.n_charts,
                                 hash_seed)
           second == color_index(args.other, args.as_subplots, args.n_charts,
                                 hash_seed)
       IN  Returns(IF first.kind = "raise" THEN first
                   ELSE IF second.kind = "raise" THEN second
                   ELSE Return([chart |-> first.value, other |-> second.value]))

NextColor == CallColorIndex

SpecColor == InitColor /\ [][NextColor]_vars

\* the labels set on a plot area from the keys its chart holds
LabelCalls(chart, ax, actions) ==
    Concat([i \in DOMAIN actions |->
               IF actions[i][1] \in DOMAIN chart
               THEN <<Entry(actions[i][2], ax, chart[actions[i][1]])>>
               ELSE <<>>], Len(actions))

\* the body of the wrapper's loop over zip(charts, axes)
ConfigureCalls(chart, ax, a) ==
    <<Entry("axis", ax, "on"), Entry("spines.set", ax, "")>>
    \o (IF Truthy(DictGet(a, "show_xaxis_labels", "True"))
        THEN <<Entry("configure_axis_ticks", ax, "xaxis")>>
        ELSE <<Entry("xaxis.set_visible", ax, "False")>>)
    \o (IF Truthy(DictGet(a, "show_yaxis_labels", "True"))
        THEN <<Entry("configure_axis_ticks", ax, "yaxis")>>
        ELSE <<Entry("yaxis.set_visible", ax, "False")>>)
    \o LabelCalls(chart, ax, << <<"subtitle", "set_title">>,
                                <<"xlabel", "set_xlabel">>,
                                <<"ylabel", "set_ylabel">> >>)

GridCalls(cfg, ax) ==
    IF Truthy(cfg["grid"]) THEN <<Entry("grid", ax, cfg["grid"])>> ELSE <<>>

(***************************************************************************)
(* Chart data.  An array is [type, items]: a numpy array, a Python list or *)
(* None.  chart["data"] is [type, cols]: type "dict" maps each label to    *)
(* the sequence given for it, type "list" is a list of per-point mappings, *)
(* cols[label] holding the values of the points that have the label.       *)
(***************************************************************************)
NoneArray == [type |-> "NoneType", items |-> <<>>]

NdArray(items) == [type |-> "ndarray", items |-> items]

PyList(items) == [type |-> "list", items |-> items]

get_chart_data(attr, chart) ==
    LET attr_label == get_attr_value(attr, chart, ScalarDefault(attr)).value
        data       == DictItem(chart, "data")
    IN  IF data.kind = "raise" THEN data
        ELSE IF data.value.type = "dict"
        THEN Return(IF attr_label \in DOMAIN data.value.cols
                    THEN data.value.cols[attr_label] ELSE NoneArray)
        ELSE IF data.value.type = "list"
        THEN Return(IF /\ attr_label \in DOMAIN data.value.cols
                       /\ Len(data.value.cols[attr_label].items) > 0
                    THEN NdArray(data.value.cols[attr_label].items)
                    ELSE NoneArray)
        ELSE Return(NoneArray)

\* the keys of a mapping by ascending key
KeysInOrder(d) == SelectSeq(KeyOrder, LAMBDA k : k \in DOMAIN d)

StrItems(d) ==
    LET keys == KeysInOrder(d)
    IN  [i \in DOMAIN keys |-> <<keys[i], Str(d[keys[i]])>>]

NumberList(a) == JsonList([i \in DOMAIN a.items |-> Str(ToString(a.items[i]))])

\* the per-point mappings of data given as a list
PointsOf(cols) ==
    LET keys == KeysInOrder(cols)
        n    == Max({0} \cup {Len(cols[k].items) : k \in DOMAIN cols})
        has(j) == SelectSeq(keys, LAMBDA k : j <= Len(cols[k].items))
    IN  JsonList([j \in 1..n |->
                     Dict([i \in DOMAIN has(j) |->
                             <<has(j)[i], Str(ToString(cols[has(j)[i]].items[j]))>>])])

\* the chart as json.dumps walks it
ChartJson(chart) ==
    LET keys == KeysInOrder(chart)
    IN  Dict([i \in DOMAIN keys |->
                 <<keys[i],
                   CASE keys[i] = "data" ->
                          IF chart["data"].type = "list"
                          THEN PointsOf(chart["data"].cols)
                          ELSE LET cols == chart["data"].cols
                                   labels == KeysInOrder(cols)
                               IN  Dict([j \in DOMAIN labels |->
                                            <<labels[j], NumberList(cols[labels[j]])>>])
                     [] keys[i] = "style" -> Dict(StrItems(chart["style"]))
                     [] OTHER -> Str(chart[keys[i]])>>])

\* json.dumps raises TypeError for an object it has no encoding of
JsonSerializable(chart) ==
    "data" \in DOMAIN chart /\ chart["data"].type = "dict" =>
        \A k \in DOMAIN chart["data"].cols : chart["data"].cols[k].type # "ndarray"

\* color_cycle[chart_hash]: the mapping holding the color of that place
CycleItem(cycle, h) ==
    "color" :> (cycle.color_name \o "#" \o ToString(CycleIndex(h, cycle.max_colors)))

Merged_first_wins(first, second) ==
    [k \in DOMAIN first \cup DOMAIN second |->
        IF k \in DOMAIN first THEN first[k] ELSE second[k]]

\* {**first, **second}: a new dict, the second's entries over the first's
Merged(first, second) ==
    [k \in DOMAIN first \cup DOMAIN second |->
        IF k \in DOMAIN second THEN second[k] ELSE first[k]]

\* color_cycle[hash(json.dumps(chart, sort_keys=True))] for one series
SeriesColor(cycle, chart) ==
    IF ~JsonSerializable(chart) THEN Raise("TypeError")
    ELSE Return(CycleItem(cycle, chart_hash(ChartJson(chart), hash_seed)))

\* {**color_cycle[chart_hash], **builder(style)}
SeriesConfig(color, built) ==
    IF color.kind = "raise" THEN color
    ELSE IF built.kind = "raise" THEN built
    ELSE Return(Merged(color.value, built.value))

(***************************************************************************)
(* What a stretch of a drawer does: the backend calls it makes, the        *)
(* warnings it emits, the item assignments it makes, and the exception     *)
(* that ends it (None when it runs through).                               *)
(***************************************************************************)
Effect(calls, warns, assigned, err) ==
    [calls |-> calls, warns |-> warns, writes |-> assigned, error |-> err]

Calls(calls) == Effect(calls, <<>>, <<>>, NoneVal)

Raises(err) == Effect(<<>>, <<>>, <<>>, err)

\* first a, then (unless a raised) b
Then(a, b) ==
    IF a.error # NoneVal THEN a
    ELSE Effect(a.calls \o b.calls, a.warns \o b.warns, a.writes \o b.writes,
                b.error)

RECURSIVE InTurn(_, _)
\* f[1], ..., f[n] in turn, up to the first that raises
InTurn(f, n) == IF n = 0 THEN Calls(<<>>) ELSE Then(InTurn(f, n - 1), f[n])

SeriesCount == Min({Len(charts), Len(axes)})

(***************************************************************************)
(* The draw calls given: one chart or a list of up to MaxSeries charts,    *)
(* with and without subplots and max_cols, and beside them either drawing  *)
(* flags, or figure texts and the labels of one chart, or the axis-label   *)
(* switches; and the malformed ones.                                       *)
(***************************************************************************)
Drawers == {"line", "bar", "hist"}

FlagValues ==
    [show_grid |-> {"both"}, show_yerr |-> {"True", "False"},
     show_area |-> {"True"}, orientation |-> {"horizontal", "vertical"},
     n_bins |-> {"5"}]

\* the mappings that give some keys of the record r one of their values
Choices(r) ==
    UNION {{[k \in D |-> v[k]] : v \in {w \in [D -> UNION {r[k] : k \in D}] :
                                          \A k \in D : w[k] \in r[k]}} :
             D \in SUBSET DOMAIN r}

FlagFamily == Choices(FlagValues)

FigureTexts ==
    Choices([title |-> {"Title"}, xlabel |-> {"X"}, ylabel |-> {"Y"}])

AxisSwitches ==
    Choices([show_xaxis_labels |-> {"False"}, show_yaxis_labels |-> {"False"}])

ChartLabels ==
    {[subtitle |-> "Subtitle"],
     [subtitle |-> "Subtitle", xlabel |-> "x", ylabel |-> "y"]}

RowData(cols) == [type |-> "list", cols |-> cols]

ColumnData(cols) == [type |-> "dict", cols |-> cols]

BaseCols ==
    ("x" :> PyList(<<1, 2>>)) @@ ("y" :> PyList(<<2, 3>>))
    @@ ("label" :> PyList(<<1, 2>>))

\* a series given point by point, with x, y and label in every point
BaseChart == "data" :> RowData(BaseCols)

PlainCharts(n) == [i \in 1..n |-> BaseChart]

\* n charts, at most one of them with labels
LabelledCharts(n) ==
    {PlainCharts(n)}
    \cup {[PlainCharts(n) EXCEPT ![i] = c @@ BaseChart] : i \in 1..n, c \in ChartLabels}

ChartsValues(plain) ==
    UNION {{[type |-> "list", items |-> cs] :
              cs \in IF plain THEN {PlainCharts(n)} ELSE LabelledCharts(n)} :
             n \in 1..MaxSeries}
    \cup {[type |-> "dict", items |-> cs] :
              cs \in IF plain THEN {PlainCharts(1)} ELSE LabelledCharts(1)}

\* series that leave the base: with error data and colors of their own,
\* with a short error column and a width and draw style of their own, given
\* column by column as lists or as numpy arrays, without data, without y
\* and label
SeriesVariants ==
    {("data" :> RowData(("x" :> PyList(<<1, 3>>)) @@ ("yerr" :> PyList(<<1, 1>>))
                        @@ ("density" :> PyList(<<1>>)) @@ BaseCols))
       @@ ("style" :> [p \in {"plot.line.color", "plot.bar.color",
                              "plot.hist.color", "plot.area.color"} |-> "red"]),
     ("data" :> RowData(("yerr" :> PyList(<<1>>)) @@ BaseCols))
       @@ ("style" :> (("plot.bar.width" :> "0.5")
                       @@ ("plot.line.drawstyle" :> "steps-mid"))),
     "data" :> ColumnData(("yerr" :> PyList(<<1, 1>>)) @@ BaseCols),
     "data" :> ColumnData([k \in {"x", "y", "yerr", "label"} |-> NdArray(<<1, 2>>)]),
     EmptyDict,
     "data" :> RowData(("x" :> PyList(<<1, 2>>)) @@ ("yerr" :> PyList(<<1, 1>>)))}

\* n series, at most one of them off the base
SeriesCharts(n) ==
    {PlainCharts(n)}
    \cup {[PlainCharts(n) EXCEPT ![i] = c] : i \in 1..n, c \in SeriesVariants}

SeriesValues ==
    UNION {{[type |-> "list", items |-> cs] : cs \in SeriesCharts(n)} :
             n \in 1..MaxSeries}
    \cup {[type |-> "dict", items |-> cs] : cs \in SeriesCharts(1)}

SeriesFlags ==
    Choices([show_yerr |-> {"True"}, show_area |-> {"True"}, n_bins |-> {"5"},
             orientation |-> {"horizontal"}])

SeriesAttrs ==
    {("charts" :> c) @@ l @@ f :
        c \in SeriesValues, l \in {EmptyDict, "as_subplots" :> "True"},
        f \in SeriesFlags}

\* the configuration of a process that draws: every path set, or every
\* path but the colors of the four plot kinds
DrawConfig ==
    [FullConfig EXCEPT !["plot.bar.width"] = "0.8",
                       !["plot.line.drawstyle"] = "default"]

NoColorConfig ==
    [p \in DOMAIN DrawConfig |->
        IF p \in {"plot.line.color", "plot.bar.color", "plot.hist.color",
                  "plot.area.color"}
        THEN NoneVal ELSE DrawConfig[p]]

Malformed ==
    {[type |-> t, items |-> <<EmptyDict>>] :
        t \in {"tuple", "str", "NoneType", "int"}}

Layouts ==
    {EmptyDict, "as_subplots" :> "True"}
    \cup {("as_subplots" :> s) @@ ("max_cols" :> m) :
             s \in {"True", "False"}, m \in 1..MaxDrawCols}

WrapperAttrs ==
    {("charts" :> c) @@ l @@ f : c \in ChartsValues(TRUE), l \in Layouts,
                                 f \in FlagFamily \cup AxisSwitches}
    \cup {("charts" :> c) @@ l @@ f : c \in ChartsValues(FALSE), l \in Layouts,
                                      f \in FigureTexts}
    \cup {("charts" :> c) @@ f : c \in Malformed, f \in FigureTexts}

AttrsIdle ==
    /\ fn = NoneVal
    /\ args = EmptyDict
    /\ ret = NotCalled
    /\ ax_calls = <<>>

InitDraw ==
    /\ \/ /\ config = DrawConfig
          /\ hash_seed = 0
          /\ wrapper_attrs \in WrapperAttrs
       \/ /\ \E process \in {<<DrawConfig, 0>>, <<NoColorConfig, 7>>} :
                config = process[1] /\ hash_seed = process[2]
          /\ wrapper_attrs \in SeriesAttrs
    /\ warned = <<>>
    /\ AttrsIdle
    /\ drawer \in Drawers
    /\ pc = "validate"
    /\ charts = <<>>
    /\ subplot_config = Layout(0, 0)
    /\ axes = <<>>
    /\ visible = {}
    /\ backend = <<>>
    /\ chart_config = EmptyDict
    /\ color_cycle = ColorCycle(NoneVal, 0)
    /\ writes = <<>>
    /\ error = NoneVal

(***************************************************************************)
(* chart_wrapper, step by step.                                            *)
(***************************************************************************)
Fail_and_go_on(e) ==
    /\ pc' = "texts"
    /\ error' = e

\* a raise ends the call: nothing after it runs
Fail(e) ==
    /\ pc' = "failed"
    /\ error' = e

\* lines 85-88
WrapperValidate ==
    /\ pc = "validate"
    /\ IF IsStructured(wrapper_attrs["charts"])
       THEN pc' = "layout" /\ error' = error
       ELSE Fail("ValueError")
    /\ UNCHANGED <<procVars, warned, attrVars, writes, wrapper_attrs, drawer, charts,
                   subplot_config, axes, visible, backend, chart_config,
                   color_cycle>>

\* lines 91-125
WrapperLayout ==
    /\ pc = "layout"
    /\ LET cs     == Normalise(wrapper_attrs["charts"])
           layout == get_subplot_config_src(
                         Truthy(DictGet(wrapper_attrs, "as_subplots", "False")),
                         Len(cs),
                         DictGet(wrapper_attrs, "max_cols", DefaultMaxCols))
       IN  /\ charts' = cs
           /\ IF layout.kind = "raise"
              THEN Fail(layout.value) /\ subplot_config' = subplot_config
              ELSE /\ subplot_config' = layout.value
                   /\ pc' = "figure"
                   /\ error' = error
    /\ UNCHANGED <<procVars, warned, attrVars, writes, wrapper_attrs, drawer, axes,
                   visible, backend, chart_config, color_cycle>>

\* lines 127-141: a new figure shows every plot area of its grid
WrapperFigure ==
    /\ pc = "figure"
    /\ LET cells == subplot_config.nrows * subplot_config.ncols
       IN  /\ backend' = Append(backend, Entry("plt.subplots", 0, ""))
           /\ visible' = 1..cells
           /\ axes' = IF ~Truthy(DictGet(wrapper_attrs, "as_subplots", "False"))
                      THEN [i \in 1..Len(charts) |-> 1]
                      ELSE [i \in 1..cells |-> i]
    /\ pc' = "hide"
    /\ UNCHANGED <<procVars, warned, attrVars, writes, wrapper_attrs, drawer, charts,
                   subplot_config, chart_config, color_cycle, error>>

WrapperHide_bound_only ==
    /\ pc = "hide"
    /\ backend' = backend \o [i \in DOMAIN charts |-> Entry("axis", axes[i], "off")]
    /\ visible' = visible \ {axes[i] : i \in DOMAIN charts}
    /\ pc' = "configure"
    /\ UNCHANGED <<procVars, warned, attrVars, writes, wrapper_attrs, drawer, charts,
                   subplot_config, axes, chart_config, color_cycle, error>>

\* lines 144-145
WrapperHide ==
    /\ pc = "hide"
    /\ backend' = backend \o [i \in DOMAIN axes |-> Entry("axis", axes[i], "off")]
    /\ visible' = visible \ Range(axes)
    /\ pc' = "configure"
    /\ UNCHANGED <<procVars, warned, attrVars, writes, wrapper_attrs, drawer, charts,
                   subplot_config, axes, chart_config, color_cycle, error>>

\* lines 147-166: zip stops at the shorter of charts and axes
WrapperConfigure ==
    /\ pc = "configure"
    /\ LET n == Min({Len(charts), Len(axes)})
       IN  /\ backend' = backend \o
                 Concat([i \in 1..n |->
                            ConfigureCalls(charts[i], axes[i], wrapper_attrs)], n)
           /\ visible' = visible \cup {axes[i] : i \in 1..n}
    /\ pc' = "draw"
    /\ UNCHANGED <<procVars, warned, attrVars, writes, wrapper_attrs, drawer, charts,
                   subplot_config, axes, chart_config, color_cycle, error>>

(***************************************************************************)
(* The drawers, each called with axes, charts and the chart_config of      *)
(* lines 172-183.                                                          *)
(***************************************************************************)
\* chart.get("style", {})
StyleOfChart(chart) == DictGet(chart, "style", EmptyDict)

\* the step mode of a fill: the part of a "steps-..." draw style after the dash
StepOf(drawstyle) ==
    CASE drawstyle = "steps-pre" -> "pre"
      [] drawstyle = "steps-mid" -> "mid"
      [] drawstyle = "steps-post" -> "post"
      [] OTHER -> NoneVal

BothFillsWarning == "Both the error area and area under the curve will be drawn"


draw_yerr_flag_any_data(cfg, y, yerr) ==
    Truthy(cfg["yerr"]) /\ yerr.type # "NoneType"

\* lines 246-250: the error band wants yerr to be a numpy array as long as y
draw_yerr_flag(cfg, y, yerr) ==
    /\ Truthy(cfg["yerr"])
    /\ yerr.type = "ndarray"
    /\ Len(yerr.items) = Len(y.items)

\* lines 237-287: one pass of draw_line_chart's loop
line_series(cfg, cycle, chart, ax) ==
    LET style == StyleOfChart(chart)
        x     == get_chart_data("x", chart)
        y     == get_chart_data("y", chart)
        yerr  == get_chart_data("yerr", chart)
    IN  IF x.kind = "raise" THEN Raises(x.value)
        ELSE
        LET is_array == Truthy(cfg["yerr"]) /\ yerr.value.type = "ndarray"
        IN  IF is_array /\ y.value.type = "NoneType" THEN Raises("TypeError")
            ELSE
            LET draw_yerr      == draw_yerr_flag(cfg, y.value, yerr.value)
                draw_area_flag == Truthy(cfg["area"])
                color          == SeriesColor(cycle, chart)
                line_config    == SeriesConfig(color, get_line_style(style))
                area_config    == SeriesConfig(color, get_area_style(style))
                drawstyle      == DictItem(line_config.value, "drawstyle")
                band == IF draw_yerr
                        THEN Calls(<<Entry("fill_between", ax,
                                           [fill |-> "yerr", step |-> NoneVal,
                                            kwargs |-> area_config.value])>>)
                        ELSE Calls(<<>>)
                area == IF ~draw_area_flag THEN Calls(<<>>)
                        ELSE IF drawstyle.kind = "raise" THEN Raises(drawstyle.value)
                        ELSE Calls(<<Entry("fill_between", ax,
                                           [fill |-> "area",
                                            step |-> StepOf(drawstyle.value),
                                            kwargs |-> area_config.value])>>)
                grid == get_grid_style(style)
            IN  Then(Effect(<<>>,
                            IF draw_yerr /\ draw_area_flag
                            THEN <<BothFillsWarning>> ELSE <<>>, <<>>, NoneVal),
                IF line_config.kind = "raise" THEN Raises(line_config.value)
                ELSE IF area_config.kind = "raise" THEN Raises(area_config.value)
                ELSE Then(band, Then(area,
                     Then(Calls(<<Entry("plot", ax,
                                        [x |-> x.value, y |-> y.value,
                                         kwargs |-> line_config.value])>>),
                     IF Truthy(cfg["grid"]) /\ grid.kind = "raise"
                     THEN Raises(grid.value)
                     ELSE Calls(GridCalls(cfg, ax)
                                \o <<Entry("set_xlim", ax, "")>>)))))

\* lines 215-287, after assert_chart_config and custom_color_cycle
draw_line_chart(cfg, cycle) ==
    InTurn([i \in 1..SeriesCount |-> line_series(cfg, cycle, charts[i], axes[i])],
           SeriesCount)

(***************************************************************************)
(* Bar geometry.  Widths are kept in hundredths, a quotient as the         *)
(* fraction [num, den].                                                    *)
(***************************************************************************)
IsNumber(v) == v \in {"0.8", "0.5"}

Number(v) == CASE v = "0.8" -> 80 [] v = "0.5" -> 50

Fraction(num, den) == [num |-> num, den |-> den]

Times(k, f) == Fraction(k * f.num, f.den)

\* the dict the dict display of line 338 makes
bar_config_object_aliased(idx) == [object |-> "style", series |-> idx]

bar_config_object(idx) == [object |-> "bar_config", series |-> idx]

\* update_group_bar_labels, lines 374-392
TickCalls(cfg, ax, is_horizontal, labels) ==
    IF is_horizontal
    THEN <<Entry("set_yticks", ax, ""), Entry("yaxis.set_major_locator", ax, "")>>
    ELSE <<Entry("set_xticks", ax, ""), Entry("xaxis.set_major_locator", ax, ""),
           Entry("set_xticklabels", ax,
                 IF ~Truthy(cfg["as_subplots"]) THEN "0"
                 ELSE IF Len(labels.items) >= 7 THEN "90"
                 ELSE IF Len(labels.items) >= 4 THEN "45" ELSE "0")>>

\* lines 314-317: x_start and x_width
bar_preliminaries(cfg) ==
    LET x_start == get_chart_data("label", charts[1])
        width   == ConfigItem(config, "plot.bar.width")
    IN  IF charts = <<>> THEN Raises("IndexError")
        ELSE IF x_start.kind = "raise" THEN Raises(x_start.value)
        ELSE IF x_start.value.type = "NoneType" THEN Raises("TypeError")
        ELSE IF width.kind = "raise" THEN Raises(width.value)
        ELSE IF ~IsNumber(width.value) THEN Raises("TypeError")
        ELSE Calls(<<>>)

bar_offset_from_one(idx, x_width) == Times(idx + 1, x_width)

\* line 342: offset = idx * x_width
bar_offset(idx, x_width) == Times(idx, x_width)

\* lines 325-407: one pass of draw_bar_chart's loop, idx counting from 0
bar_series(cfg, cycle, idx, chart, ax) ==
    LET style         == StyleOfChart(chart)
        x_width       == Fraction(Number(config["plot.bar.width"]), Len(charts))
        is_horizontal == DictGet(cfg, "orientation", "vertical") = "horizontal"
        grouped       == ~Truthy(cfg["as_subplots"])
        y             == get_chart_data("y", chart)
        yerr          == get_chart_data("yerr", chart)
        labels        == get_chart_data("label", chart)
        bar_config    == SeriesConfig(SeriesColor(cycle, chart),
                                      get_bar_style(style, is_horizontal))
        thickness     == IF is_horizontal THEN "height" ELSE "width"
        offset        == IF grouped THEN bar_offset(idx, x_width) ELSE Fraction(0, 1)
        grid          == get_grid_style(chart)
    IN  IF y.kind = "raise" THEN Raises(y.value)
        ELSE IF labels.value.type = "NoneType" THEN Raises("TypeError")
        ELSE IF bar_config.kind = "raise" THEN Raises(bar_config.value)
        ELSE Then(Effect(
                 <<Entry(IF is_horizontal THEN "barh" ELSE "bar", ax,
                         [x |-> [j \in DOMAIN labels.value.items |->
                                    [tick |-> j - 1, offset |-> offset]],
                          y |-> y.value,
                          err |-> IF Truthy(cfg["yerr"]) THEN yerr.value
                                  ELSE NoneArray,
                          kwargs |-> IF grouped
                                     THEN Merged(bar_config.value, thickness :> x_width)
                                     ELSE bar_config.value])>>,
                 <<>>,
                 IF grouped
                 THEN <<[target |-> bar_config_object(idx), key |-> thickness,
                         value |-> x_width]>>
                 ELSE <<>>,
                 NoneVal),
             IF Truthy(cfg["grid"]) /\ grid.kind = "raise" THEN Raises(grid.value)
             ELSE Calls(GridCalls(cfg, ax)
                        \o TickCalls(cfg, ax, is_horizontal, labels.value)
                        \o LabelCalls(chart, ax,
                             << <<"subtitle", "set_title">>,
                                <<"xlabel", IF is_horizontal THEN "set_ylabel"
                                            ELSE "set_xlabel">>,
                                <<"ylabel", IF is_horizontal THEN "set_xlabel"
                                            ELSE "set_ylabel">> >>)))

\* lines 322-414, after the preliminaries and custom_color_cycle
draw_bar_chart(cfg, cycle) ==
    Then(InTurn([i \in 1..SeriesCount |->
                    bar_series(cfg, cycle, i - 1, charts[i], axes[i])], SeriesCount),
         Calls(IF Truthy(cfg["as_subplots"]) THEN <<>>
               ELSE IF DictGet(cfg, "orientation", "vertical") = "horizontal"
               THEN <<Entry("set_xlim", axes[1], "left=0")>>
               ELSE <<Entry("set_ylim", axes[1], "bottom=0")>>))

(***************************************************************************)
(* The histogram drawer.  Uniform bin edges are fixed by the least and the *)
(* greatest value of the data and the bin count.                           *)
(***************************************************************************)
DefaultBins == "20"

\* np.hstack(tuple(x_all))
Stacked(arrays) == Concat([i \in DOMAIN arrays |-> arrays[i].items], Len(arrays))

\* np.histogram(data, bins=n_bins)[1]
BinEdges(data, n_bins) ==
    [low   |-> IF data = <<>> THEN 0 ELSE Min(Range(data)),
     high  |-> IF data = <<>> THEN 1 ELSE Max(Range(data)),
     count |-> n_bins]

x_all == [i \in DOMAIN charts |-> get_chart_data("x", charts[i])]

\* line 443: n_bins = chart_config.get("n_bins", 20)
n_bins_of(cfg) == DictGet(cfg, "n_bins", DefaultBins)

bins_of_series(cfg, i) ==
    BinEdges(IF i \in DOMAIN charts THEN x_all[i].value.items
             ELSE Stacked([j \in DOMAIN charts |-> x_all[j].value]),
             n_bins_of(cfg))

\* the bins argument of the hist call that draws series i (0: all series):
\* the edges of line 447, computed from the data of all series
bins_of(cfg, i) ==
    BinEdges(Stacked([j \in DOMAIN charts |-> x_all[j].value]), n_bins_of(cfg))

\* lines 441-447: np.histogram raises TypeError for a bin count that is not
\* a number and for data holding None
hist_preliminaries(cfg) ==
    LET raised == {i \in DOMAIN charts : x_all[i].kind = "raise"}
    IN  IF raised # {} THEN Raises(x_all[Min(raised)].value)
        ELSE Effect(<<Entry("np.histogram", 0,
                            [x |-> Stacked([j \in DOMAIN charts |-> x_all[j].value]),
                             bins |-> n_bins_of(cfg)])>>,
                    <<>>, <<>>,
                    IF \/ n_bins_of(cfg) = NoneVal
                       \/ \E i \in DOMAIN charts : x_all[i].value.type = "NoneType"
                    THEN "TypeError" ELSE NoneVal)

\* lines 452-478: all series in one stacked call on the first plot area
hist_shared(cfg, cycle) ==
    LET hist_config == [i \in DOMAIN charts |->
                           SeriesConfig(SeriesColor(cycle, charts[i]),
                                        get_hist_style(StyleOfChart(charts[i])))]
        raised == {i \in DOMAIN charts : hist_config[i].kind = "raise"}
        nokey  == {i \in DOMAIN charts : "color" \notin DOMAIN hist_config[i].value}
        color  == [i \in DOMAIN charts |-> hist_config[i].value["color"]]
        grid   == get_grid_style(charts[1])
    IN  IF raised # {} THEN Raises(hist_config[Min(raised)].value)
        ELSE IF nokey # {} THEN Raises("KeyError")
        ELSE Then(Calls(<<Entry("hist", axes[1],
                     [x |-> [i \in DOMAIN charts |-> x_all[i].value],
                      bins |-> bins_of(cfg, 0),
                      orientation |-> DictGet(cfg, "orientation", "vertical"),
                      stacked |-> "True",
                      kwargs |-> Merged(hist_config[1].value,
                                   "color" :> IF \E i \in DOMAIN color :
                                                    color[i] = NoneVal
                                              THEN NoneList ELSE List(color))])>>),
             IF Truthy(cfg["grid"]) /\ grid.kind = "raise" THEN Raises(grid.value)
             ELSE Calls(GridCalls(cfg, axes[1])))

\* lines 482-507: one pass of the loop over zip(charts, axes)
hist_series(cfg, cycle, i, chart, ax) ==
    LET density     == get_chart_data("density", chart)
        cumulative  == get_chart_data("cumulative", chart)
        hist_config == SeriesConfig(SeriesColor(cycle, chart),
                                    get_hist_style(StyleOfChart(chart)))
        grid        == get_grid_style(chart)
    IN  IF hist_config.kind = "raise" THEN Raises(hist_config.value)
        ELSE Then(Calls(<<Entry("hist", ax,
                     [x |-> x_all[i].value,
                      bins |-> bins_of(cfg, i),
                      density |-> density.value,
                      cumulative |-> cumulative.value,
                      orientation |-> DictGet(cfg, "orientation", "vertical"),
                      stacked |-> "False",
                      kwargs |-> hist_config.value])>>),
             IF Truthy(cfg["grid"]) /\ grid.kind = "raise" THEN Raises(grid.value)
             ELSE Calls(GridCalls(cfg, ax)))

\* lines 449-507, after the bin edges and custom_color_cycle
draw_hist_chart(cfg, cycle) ==
    IF ~Truthy(cfg["as_subplots"]) THEN hist_shared(cfg, cycle)
    ELSE InTurn([i \in 1..SeriesCount |->
                    hist_series(cfg, cycle, i, charts[i], axes[i])], SeriesCount)

(***************************************************************************)
(* The drawers as chart_wrapper calls them, with axes, charts and the      *)
(* chart_config of lines 172-183.                                          *)
(***************************************************************************)
\* what a drawer does before it makes its color cycle
Preliminaries(d, cfg) ==
    CASE d = "line" -> Calls(<<>>)
      [] d = "bar"  -> bar_preliminaries(cfg)
      [] d = "hist" -> hist_preliminaries(cfg)

\* and after
Series(d, cfg, cycle) ==
    CASE d = "line" -> draw_line_chart(cfg, cycle)
      [] d = "bar"  -> draw_bar_chart(cfg, cycle)
      [] d = "hist" -> draw_hist_chart(cfg, cycle)

\* the charts after the item assignments: one made into a chart's own style
\* mapping shows in the chart
Written(cs, assigned) ==
    [i \in DOMAIN cs |->
        LET mine == {j \in DOMAIN assigned :
                        /\ assigned[j].target.object = "style"
                        /\ assigned[j].target.series = i - 1}
        IN  IF mine = {} THEN cs[i]
            ELSE LET w == assigned[Max(mine)]
                 IN  ("style" :> Merged(StyleOfChart(cs[i]), w.key :> w.value))
                     @@ cs[i]]

Drawer(d) ==
    /\ pc = "draw"
    /\ drawer = d
    /\ LET cfg   == ChartConfig(wrapper_attrs)
           pre   == Preliminaries(d, cfg)
           cycle == custom_color_cycle(Truthy(cfg["as_subplots"]), Len(charts))
           done  == Then(Effect(<<>>,
                                assert_chart_config(cfg, supported_chart_config(d)),
                                <<>>, NoneVal),
                         Then(pre, IF cycle.kind = "raise" THEN Raises(cycle.value)
                                   ELSE Series(d, cfg, cycle.value)))
       IN  /\ chart_config' = cfg
           /\ warned' = warned \o done.warns
           /\ backend' = backend \o done.calls
           /\ writes' = done.writes
           /\ charts' = Written(charts, done.writes)
           /\ color_cycle' = IF pre.error = NoneVal /\ cycle.kind = "return"
                             THEN cycle.value ELSE color_cycle
           /\ IF done.error # NoneVal THEN Fail(done.error)
              ELSE pc' = "texts" /\ error' = error
    /\ UNCHANGED <<procVars, attrVars, wrapper_attrs, drawer, subplot_config, axes,
                   visible>>

\* lines 215-287
DrawLineChart == Drawer("line")

\* lines 295-414
DrawBarChart == Drawer("bar")

\* lines 422-507
DrawHistChart == Drawer("hist")

\* lines 186-203
WrapperTexts ==
    /\ pc = "texts"
    /\ backend' = backend
          \o (IF Truthy(DictGet(wrapper_attrs, "title", NoneVal))
              THEN <<Entry("figure.suptitle", 0, wrapper_attrs["title"])>> ELSE <<>>)
          \o (IF Truthy(DictGet(wrapper_attrs, "xlabel", NoneVal))
              THEN <<Entry("figure.text", 0, wrapper_attrs["xlabel"])>> ELSE <<>>)
          \o (IF Truthy(DictGet(wrapper_attrs, "ylabel", NoneVal))
              THEN <<Entry("figure.text", 0, wrapper_attrs["ylabel"])>> ELSE <<>>)
    /\ pc' = "show"
    /\ UNCHANGED <<procVars, warned, attrVars, writes, wrapper_attrs, drawer, charts,
                   subplot_config, axes, visible, chart_config, color_cycle,
                   error>>

\* line 205
WrapperShow ==
    /\ pc = "show"
    /\ backend' = Append(backend, Entry("plt.show", 0, ""))
    /\ pc' = "done"
    /\ UNCHANGED <<procVars, warned, attrVars, writes, wrapper_attrs, drawer, charts,
                   subplot_config, axes, visible, chart_config, color_cycle,
                   error>>

NextDraw ==
    \/ WrapperValidate
    \/ WrapperLayout
    \/ WrapperFigure
    \/ WrapperHide
    \/ WrapperConfigure
    \/ DrawLineChart
    \/ DrawBarChart
    \/ DrawHistChart
    \/ WrapperTexts
    \/ WrapperShow

SpecDraw == InitDraw /\ [][NextDraw]_vars

(***************************************************************************)
(* Properties of utils/attrs.py, checked under Spec.                       *)
(***************************************************************************)
Called(f) == fn = f /\ ret.kind # "pending"

LayoutFns == {"get_subplot_config", "get_subplot_config_src"}

\* C1: for positive n_charts and max_cols get_subplot_config returns the
\* reference layout: 1 x 1 without subplots; with subplots the rows are the
\* ceiling of n_charts / max_cols (the least r with r * max_cols >= n_charts)
\* and the columns max_cols if n_charts >= max_cols, else n_charts mod
\* max_cols; so 10, 4 gives 3 x 4, 4, 4 gives 1 x 4 and 3, 4 gives 1 x 3.
C1_SubplotLayout ==
    \A f \in LayoutFns :
        (Called(f) /\ args.n_charts > 0 /\ args.max_cols > 0) =>
            LET n == args.n_charts
                m == args.max_cols
            IN  /\ ret.kind = "return"
                /\ ~args.subplots => ret.value = Layout(1, 1)
                /\ args.subplots =>
                      /\ ret.value.nrows * m >= n
                      /\ (ret.value.nrows - 1) * m < n
                      /\ ret.value.ncols = IF n >= m THEN m ELSE n % m
                      /\ (n = 10 /\ m = 4) => ret.value = Layout(3, 4)
                      /\ (n = 4 /\ m = 4) => ret.value = Layout(1, 4)
                      /\ (n = 3 /\ m = 4) => ret.value = Layout(1, 3)

C1_Witness ==
    /\ Called("get_subplot_config")
    /\ args.subplots /\ args.n_charts = 10 /\ args.max_cols = 4
    /\ ret = Return(Layout(3, 4))

MappingLike(default) == default.type \in {"Config", "dict"}

\* C2: get_attr_value returns obj[attr] whenever attr is a key of obj, for
\* every default, also a mapping-like default without attr; when attr is
\* not in obj it returns default[attr] for a mapping-like default holding
\* attr and the default itself for a scalar, boolean or None default.
C2_LocalOverridesDefault ==
    Called("get_attr_value") =>
        IF args.attr \in DOMAIN args.obj
        THEN ret = Return(args.obj[args.attr])
        ELSE IF MappingLike(args.default)
        THEN args.attr \in DOMAIN args.default.map =>
                ret = Return(args.default.map[args.attr])
        ELSE ret = Return(args.default.val)

CreateConfigDictBuilders == StyleBuilders \cup {"get_legend_style"}

\* the series style a builder resolves against
StyleOf(f) == IF f = "get_legend_style" THEN EmptyDict ELSE args.chart_style

AttrsOf(f) ==
    BuilderAttrs(f, IF f = "get_bar_style" THEN args.is_horizontal ELSE FALSE)

\* C3: with a mapping-like default, get_attr_value ends in a missing-key
\* error whenever attr is a key of neither obj nor the default, and the
\* error comes out of create_config_dict and of every builder calling it:
\* a builder whose list has a path held by neither the series style nor
\* the global configuration raises it.
C3_MissingKeyPropagates ==
    /\ (/\ Called("get_attr_value")
        /\ MappingLike(args.default)
        /\ args.attr \notin DOMAIN args.obj
        /\ args.attr \notin DOMAIN args.default.map) => ret = Raise("KeyError")
    /\ \A f \in CreateConfigDictBuilders :
          (/\ Called(f)
           /\ \E p \in PathsOf(AttrsOf(f)) :
                 p \notin DOMAIN StyleOf(f) /\ p \notin DOMAIN config)
          => ret = Raise("KeyError")

C3_Witness ==
    /\ Called("get_bar_style")
    /\ "plot.bar.hatch" \notin DOMAIN args.chart_style
    /\ "plot.bar.hatch" \notin DOMAIN config
    /\ PathsOf(bar_attrs(FALSE)) \ {"plot.bar.hatch"} \subseteq DOMAIN config
    /\ ret = Raise("KeyError")

Resolved(style, path) ==
    IF path \in DOMAIN style THEN style[path] ELSE config[path]

NoNull(mapping) == \A k \in DOMAIN mapping : mapping[k] # NoneVal

FullySpecified(style, attrs) ==
    \A p \in PathsOf(attrs) : p \in DOMAIN style /\ style[p] # NoneVal

\* C6: given a series style with a non-null value for every path of a
\* builder's list, the output holds every declared argument name with the
\* style's value, whatever the global configuration holds; the bar builder
\* gives plot.bar.width under "height" (and no "width") when horizontal
\* and under "width" (and no "height") otherwise.
C6_FullStyleGivesEveryPair ==
    \A f \in StyleBuilders :
        (Called(f) /\ FullySpecified(args.chart_style, AttrsOf(f))) =>
            /\ ret.kind = "return"
            /\ \A i \in DOMAIN AttrsOf(f) :
                  /\ AttrsOf(f)[i][1] \in DOMAIN ret.value
                  /\ ret.value[AttrsOf(f)[i][1]] = args.chart_style[AttrsOf(f)[i][2]]
            /\ f = "get_bar_style" =>
                  IF args.is_horizontal
                  THEN /\ "width" \notin DOMAIN ret.value
                       /\ ret.value["height"] = args.chart_style["plot.bar.width"]
                  ELSE /\ "height" \notin DOMAIN ret.value
                       /\ ret.value["width"] = args.chart_style["plot.bar.width"]

\* the calls made and the warnings emitted for one axis
AxisCalls(f) == SelectSeq(ax_calls, LAMBDA c : c.func = f)

AxisWarnings(tk) == SelectSeq(warned, LAMBDA w : w[2] = tk)

Given(chart, key) == key \in DOMAIN chart /\ ~chart[key].isNone

\* C7: configure_axis_ticks_position decides each axis by itself:
\* positions without labels, ticks set and no warning; positions and labels
\* of equal length, ticks and labels set and no warning; of different
\* lengths, one warning, ticks set, labels discarded; labels without
\* positions, one warning and no tick call; neither, no call and no
\* warning.  What happens on the x axis does not keep the y axis from
\* being processed.
C7_TickPositionPolicy ==
    Called("configure_axis_ticks_position") =>
        \A axis \in Range(tick_attrs) :
            LET chart  == args.chart
                setter == IF axis[3] = "xaxis" THEN "set_xticks" ELSE "set_yticks"
                calls  == AxisCalls(setter)
                warns  == AxisWarnings(axis[1])
                ticksOnly == [func |-> setter, ticks |-> chart[axis[1]].items,
                              labels |-> NoneList]
            IN  /\ (Given(chart, axis[1]) /\ ~Given(chart, axis[2])) =>
                      calls = <<ticksOnly>> /\ warns = <<>>
                /\ (/\ Given(chart, axis[1]) /\ Given(chart, axis[2])
                    /\ Len(chart[axis[1]].items) = Len(chart[axis[2]].items)) =>
                      /\ calls = <<[func |-> setter, ticks |-> chart[axis[1]].items,
                                    labels |-> chart[axis[2]]]>>
                      /\ warns = <<>>
                /\ (/\ Given(chart, axis[1]) /\ Given(chart, axis[2])
                    /\ Len(chart[axis[1]].items) # Len(chart[axis[2]].items)) =>
                      calls = <<ticksOnly>> /\ Len(warns) = 1
                /\ (~Given(chart, axis[1]) /\ Given(chart, axis[2])) =>
                      calls = <<>> /\ Len(warns) = 1
                /\ (~Given(chart, axis[1]) /\ ~Given(chart, axis[2])) =>
                      calls = <<>> /\ warns = <<>>

C7_Witness ==
    /\ Called("configure_axis_ticks_position")
    /\ ~Given(args.chart, "xticks") /\ Given(args.chart, "xticklabels")
    /\ Given(args.chart, "yticks") /\ Given(args.chart, "yticklabels")
    /\ Len(args.chart["yticks"].items) = 2
    /\ Len(args.chart["yticklabels"].items) = 1
    /\ Len(warned) = 2
    /\ Len(ax_calls) = 1 /\ ax_calls[1].func = "set_yticks"
    /\ ax_calls[1].labels = NoneList

(***************************************************************************)
(* Properties of utils/charts.py, checked under SpecDraw.                  *)
(***************************************************************************)
DrawerReturned == pc \in {"texts", "show", "done"}

DrawCalls == {"plot", "bar", "barh", "hist"}

Drawn == \E i \in DOMAIN backend : backend[i].call \in DrawCalls

\* C8: a draw call whose charts attribute is neither a mapping nor a
\* sequence ends in the ValueError of the validation, with no figure and no
\* plot area made, no axis configured, no drawer run and nothing rendered:
\* no call into the backend is made in that draw call.
C8_MalformedChartsAbortFirst ==
    (pc # "idle" /\ wrapper_attrs["charts"].type \in {"NoneType", "int"}) =>
        /\ pc \in {"validate", "failed"}
        /\ pc = "failed" => error = "ValueError"
        /\ backend = <<>>
        /\ axes = <<>>
        /\ visible = {}
        /\ warned = <<>>
        /\ chart_config = EmptyDict

C8_Witness ==
    /\ pc = "failed"
    /\ wrapper_attrs["charts"].type = "NoneType"
    /\ error = "ValueError"
    /\ backend = <<>>

\* the supported drawing-config keys of each drawer, as the claim lists them
SupportedKeys ==
    [line |-> {"as_subplots", "grid", "yerr", "area"},
     bar |-> {"as_subplots", "grid", "yerr", "orientation"},
     hist |-> {"as_subplots", "grid", "n_bins", "orientation"}]

\* the warnings of assert_chart_config among those emitted, each the key it
\* is about
KeyWarnings == SelectSeq(warned, LAMBDA w : w # BothFillsWarning)

\* C9 as claimed: a drawer warns once for every drawing-config key that is
\* present and not in its supported set, raises nothing and goes on drawing.
C9_WarnsForEveryPresentUnsupportedKey ==
    DrawerReturned =>
        /\ Range(KeyWarnings) = DOMAIN chart_config \ SupportedKeys[drawer]
        /\ Len(KeyWarnings) = Cardinality(DOMAIN chart_config \ SupportedKeys[drawer])
        /\ error = NoneVal
        /\ Drawn

\* C9, amended: a drawer warns once for every drawing-config key that is
\* not in its supported set and whose value is truthy (a key holding None,
\* False or 0, as every key chart_wrapper fills from an attribute left
\* out, is passed over in silence); it raises nothing for such a key and
\* the drawing steps after assert_chart_config still run.
C9_WarnsForEveryTruthyUnsupportedKey ==
    DrawerReturned =>
        LET unsupported == {k \in DOMAIN chart_config \ SupportedKeys[drawer] :
                               chart_config[k] \notin {NoneVal, "False", "0", ""}}
        IN  /\ Range(KeyWarnings) = unsupported
            /\ Len(KeyWarnings) = Cardinality(unsupported)
            /\ error = NoneVal
            /\ Drawn

C9_Witness ==
    /\ pc = "done"
    /\ drawer = "line"
    /\ chart_config["orientation"] = "horizontal"
    /\ chart_config["n_bins"] = "5"
    /\ chart_config["yerr"] = NoneVal
    /\ warned = <<"orientation", "n_bins">>
    /\ Drawn

\* C10 as claimed: the color cycle has size 1 in shared-axis mode and the
\* size of the series count in subplot mode, its source being one of the
\* two configuration entries color.general.singular, color.general.multiple.
C10_CycleSizeOneWhenShared ==
    DrawerReturned =>
        /\ color_cycle.max_colors =
              IF chart_config["as_subplots"] = "True" THEN Len(charts) ELSE 1
        /\ color_cycle.color_name \in {config["color.general.singular"],
                                       config["color.general.multiple"]}

\* C10, amended: the color cycle has size 1 and comes from
\* color.general.singular in subplot mode; it has the size of the series
\* count and comes from color.general.multiple in shared-axis mode.
C10_CycleSizeOneWhenSubplots ==
    DrawerReturned =>
        IF chart_config["as_subplots"] = "True"
        THEN /\ color_cycle.max_colors = 1
             /\ color_cycle.color_name = config["color.general.singular"]
        ELSE /\ color_cycle.max_colors = Len(charts)
             /\ color_cycle.color_name = config["color.general.multiple"]

C10_Witness ==
    /\ pc = "done"
    /\ chart_config["as_subplots"] = "False"
    /\ Len(charts) = 3
    /\ color_cycle.max_colors = 3
    /\ color_cycle.color_name = config["color.general.multiple"]
    /\ config["color.general.multiple"] # config["color.general.singular"]

(***************************************************************************)
(* Properties of the color assignment, checked under SpecColor.            *)
(***************************************************************************)
\* the value written under key k in the pairs of a dict
ValueOf(pairs, k) == pairs[CHOOSE i \in DOMAIN pairs : pairs[i][1] = k][2]

KeysOf(pairs) == {pairs[i][1] : i \in DOMAIN pairs}

RECURSIVE SameContent(_, _)
\* equal as Python values: dicts with the same keys holding equal values,
\* in whatever order they were written
SameContent(a, b) ==
    /\ a.t = b.t
    /\ CASE a.t = "str" -> a.v = b.v
         [] a.t = "list" -> /\ Len(a.v) = Len(b.v)
                            /\ \A i \in DOMAIN a.v : SameContent(a.v[i], b.v[i])
         [] a.t = "dict" -> /\ KeysOf(a.v) = KeysOf(b.v)
                            /\ \A k \in KeysOf(a.v) :
                                  SameContent(ValueOf(a.v, k), ValueOf(b.v, k))

\* C11: two series specifications of identical key/value content get the
\* same color-cycle index in draw calls of the same mode and series count,
\* in whatever order the keys of the chart, of its style and of its data
\* points were written; the index is a function of the content alone.
C11_SameContentSameColorIndex ==
    (fn = "color_index" /\ ret.kind # "pending") =>
        /\ ret.kind = "return"
        /\ SameContent(args.chart, args.other) =>
               ret.value.chart = ret.value.other

C11_Witness ==
    /\ fn = "color_index"
    /\ ret.kind = "return"
    /\ ~args.as_subplots
    /\ args.n_charts = 3
    /\ SameContent(args.chart, args.other)
    /\ args.chart.v[1][1] # args.other.v[1][1]
    /\ ValueOf(args.chart.v, "style").v[1][1] # ValueOf(args.other.v, "style").v[1][1]
    /\ json_dumps(args.chart, FALSE) # json_dumps(args.other, FALSE)
    /\ ret.value.chart = ret.value.other
    /\ ret.value.chart # 0

(***************************************************************************)
(* Properties of the drawers, checked under SpecDraw.                      *)
(***************************************************************************)
Shared == chart_config["as_subplots"] \in {NoneVal, "False", "0", ""}

CallsOf(names) == SelectSeq(backend, LAMBDA e : e.call \in names)

SameFraction(a, b) == a.num * b.den = b.num * a.den

\* the key bar thickness goes by in the call: height for horizontal bars
ThicknessKey ==
    IF chart_config["orientation"] = "horizontal" THEN "height" ELSE "width"

\* C12: in grouped mode with n series and configured bar width W every
\* series is drawn with thickness W/n, whatever width its own style gives,
\* and the bar of its j-th label sits at tick index j plus i*(W/n), i the
\* index of the series; in subplot mode every offset is 0 and the thickness
\* is the one the bar style builder resolves (the style's own plot.bar.width,
\* else the configured one).
C12_GroupedBarThicknessAndOffset ==
    (DrawerReturned /\ drawer = "bar") =>
        LET bars == CallsOf({"bar", "barh"})
            n    == Len(charts)
            W    == Number(config["plot.bar.width"])
        IN  /\ Len(bars) = n
            /\ \A i \in 1..n :
                  LET a     == bars[i].arg
                      style == IF "style" \in DOMAIN charts[i]
                               THEN charts[i]["style"] ELSE EmptyDict
                  IN  IF Shared
                      THEN /\ SameFraction(a.kwargs[ThicknessKey], Fraction(W, n))
                           /\ \A j \in DOMAIN a.x :
                                 /\ a.x[j].tick = j - 1
                                 /\ SameFraction(a.x[j].offset,
                                                 Fraction((i - 1) * W, n))
                      ELSE /\ a.kwargs[ThicknessKey] =
                                 IF "plot.bar.width" \in DOMAIN style
                                 THEN style["plot.bar.width"]
                                 ELSE config["plot.bar.width"]
                           /\ \A j \in DOMAIN a.x :
                                 /\ a.x[j].tick = j - 1
                                 /\ a.x[j].offset.num = 0

C12_Witness ==
    /\ pc = "done"
    /\ drawer = "bar"
    /\ Shared
    /\ Len(charts) = 3
    /\ "style" \in DOMAIN charts[3]
    /\ charts[3]["style"]["plot.bar.width"] = "0.5"
    /\ LET bars == CallsOf({"bar", "barh"})
       IN  /\ Len(bars) = 3
           /\ bars[3].arg.kwargs[ThicknessKey] = Fraction(80, 3)
           /\ bars[3].arg.x[2] = [tick |-> 1, offset |-> Fraction(160, 3)]
           /\ bars[1].arg.x[2] = [tick |-> 1, offset |-> Fraction(0, 3)]

\* the x data of the series, one after the other
AllX == Concat([i \in DOMAIN charts |-> charts[i]["data"].cols["x"].items],
               Len(charts))

\* C13: in one histogram draw call the bin edges are computed once, from the
\* concatenation of the x data of all series, and every histogram call of
\* the draw call is given that edge set: the one stacked call in shared-axis
\* mode and each per-series call in subplot mode, whatever the density and
\* cumulative data of the series.
C13_OneBinEdgeSetForAllSeries ==
    (DrawerReturned /\ drawer = "hist") =>
        LET computed == CallsOf({"np.histogram"})
            hists    == CallsOf({"hist"})
        IN  /\ Len(computed) = 1
            /\ computed[1].arg.x = AllX
            /\ Len(hists) = IF Shared THEN 1 ELSE Len(charts)
            /\ \A i \in DOMAIN hists :
                  /\ hists[i].arg.bins.low = Min(Range(AllX))
                  /\ hists[i].arg.bins.high = Max(Range(AllX))
                  /\ hists[i].arg.bins.count = computed[1].arg.bins
                  /\ hists[i].arg.bins = hists[1].arg.bins

C13_Witness ==
    /\ pc = "done"
    /\ drawer = "hist"
    /\ ~Shared
    /\ Len(charts) = 3
    /\ LET hists == CallsOf({"hist"})
       IN  /\ Len(hists) = 3
           /\ hists[2].arg.density.type = "ndarray"
           /\ hists[1].arg.density.type = "NoneType"
           /\ hists[2].arg.x.items = <<1, 3>>
           /\ hists[1].arg.x.items = <<1, 2>>
           /\ hists[1].arg.bins = [low |-> 1, high |-> 3, count |-> "5"]
           /\ hists[2].arg.bins = hists[1].arg.bins

\* C14: in a histogram draw call made through chart_wrapper the bin edges
\* are computed with the bin count 20 when the top-level attributes do not
\* set n_bins, and with the count they set when they do.
C14_DefaultBinCountIsTwenty ==
    (drawer = "hist" /\ chart_config # EmptyDict /\ CallsOf({"np.histogram"}) # <<>>) =>
        /\ CallsOf({"np.histogram"})[1].arg.bins =
              IF "n_bins" \in DOMAIN wrapper_attrs THEN wrapper_attrs["n_bins"]
              ELSE "20"
        /\ error # "TypeError"

\* C15: no step of a draw call changes the global configuration, the
\* top-level attributes or a series mapping (its style included), whether
\* the call returns or fails; the thickness override of a grouped bar chart
\* is an item assignment into the drawer's own per-series keyword-argument
\* mapping, never into the style mapping of the series.
C15_InputsNeverMutated ==
    [][/\ config' = config
       /\ wrapper_attrs' = wrapper_attrs
       /\ charts # <<>> => charts' = charts
       /\ \A j \in DOMAIN writes' :
             /\ writes'[j].target.object = "bar_config"
             /\ writes'[j].key \in {"width", "height"}]_vars

C15_Witness ==
    /\ pc = "done" /\ drawer = "bar" /\ Shared
    /\ Len(writes) = Len(charts) /\ Len(charts) >= 2
    /\ charts = Normalise(wrapper_attrs["charts"])
    /\ \E i \in DOMAIN charts :
          /\ DictGet(StyleOfChart(charts[i]), "plot.bar.width", NoneVal) = "0.5"
          /\ CallsOf({"bar", "barh"})[i].arg.kwargs[ThicknessKey] # Fraction(50, 100)

\* C16: when the drawer is invoked, and ever after, a subplot-mode call with
\* n >= 1 series and maximum column count m >= 1 has a grid of at least n
\* plot areas, series i is bound to the i-th area in row-major order, the
\* bound areas are distinct, exactly the bound areas are visible and every
\* other area of the grid is hidden; a shared-axis call binds every series
\* to the one plot area, which is visible.
DrawerInvoked ==
    \/ pc \in {"draw", "texts", "show", "done"}
    \/ pc = "failed" /\ chart_config # EmptyDict

Cells == subplot_config.nrows * subplot_config.ncols

C16_SeriesBoundToVisibleAreas ==
    DrawerInvoked =>
        LET n == Len(charts)
        IN  IF Truthy(DictGet(wrapper_attrs, "as_subplots", "False"))
            THEN /\ Cells >= n
                 /\ Len(axes) = Cells
                 /\ \A i \in 1..n : axes[i] = i
                 /\ \A i, j \in 1..n : axes[i] = axes[j] => i = j
                 /\ visible = {axes[i] : i \in 1..n}
                 /\ \A a \in (1..Cells) \ {axes[i] : i \in 1..n} : a \notin visible
            ELSE /\ Cells = 1
                 /\ \A i \in 1..n : axes[i] = 1
                 /\ visible = {1}

C16_Witness ==
    /\ pc = "draw"
    /\ Truthy(DictGet(wrapper_attrs, "as_subplots", "False"))
    /\ Len(charts) = 3
    /\ subplot_config = [nrows |-> 2, ncols |-> 2]
    /\ visible = {1, 2, 3}
    /\ CallsOf({"axis"})[4] = Entry("axis", 4, "off")
    /\ \A i \in DOMAIN backend : backend[i].call = "axis" /\ backend[i].ax = 4
                                  => backend[i].arg = "off"

\* the positions of the backend log that hold a call of the given names
Positions(names) == {i \in DOMAIN backend : backend[i].call \in names}

HidePositions == {i \in Positions({"axis"}) : backend[i].arg = "off"}

ConfigurePositions ==
    {i \in Positions({"axis"}) : backend[i].arg = "on"}
    \cup Positions({"spines.set", "configure_axis_ticks", "xaxis.set_visible",
                    "yaxis.set_visible"})

DrawerPositions ==
    Positions(DrawCalls \cup {"np.histogram", "fill_between", "grid", "set_xlim",
                              "set_ylim", "set_xticks", "set_yticks",
                              "set_xticklabels", "xaxis.set_major_locator",
                              "yaxis.set_major_locator"})

TextPositions == Positions({"figure.suptitle", "figure.text"})

Before(A, B) == \A i \in A, j \in B : i < j

TextsGiven ==
    {k \in {"title", "xlabel", "ylabel"} : Truthy(DictGet(wrapper_attrs, k, NoneVal))}

\* C17: the steps of a draw call come in one order: validation, layout,
\* figure creation, hiding of every plot area, configuration of each series'
\* plot area, one invocation of the drawer, the figure texts (each only for
\* an attribute that is given), one render as the last step.  The drawer is
\* not invoked before every series' plot area is configured, and a call in
\* which the drawer raises applies no figure text and does not render.
C17_StepsInFixedOrder ==
    /\ backend # <<>> =>
          /\ pc \notin {"validate", "layout", "figure"}
          /\ IsStructured(wrapper_attrs["charts"])
          /\ charts = Normalise(wrapper_attrs["charts"])
          /\ Positions({"plt.subplots"}) = {1}
    /\ Before(HidePositions, ConfigurePositions)
    /\ Before(ConfigurePositions, DrawerPositions)
    /\ Before(DrawerPositions, TextPositions)
    /\ Before(DOMAIN backend \ Positions({"plt.show"}), Positions({"plt.show"}))
    /\ (chart_config # EmptyDict \/ DrawerPositions # {}) =>
          /\ pc \in {"texts", "show", "done", "failed"}
          /\ Cardinality(HidePositions) = Len(axes)
          /\ Cardinality(Positions({"spines.set"})) = SeriesCount
          /\ \A i \in DOMAIN charts :
                \E k \in Positions({"spines.set"}) : backend[k].ax = axes[i]
    /\ Cardinality(Positions({"np.histogram"})) <= 1
    /\ Cardinality(Positions(DrawCalls)) <= SeriesCount
    /\ TextPositions # {} => pc \in {"show", "done"}
    /\ pc \in {"show", "done"} =>
          /\ chart_config # EmptyDict /\ error = NoneVal
          /\ Cardinality(Positions(DrawCalls)) =
                IF drawer = "hist" /\ Shared THEN 1 ELSE SeriesCount
          /\ Cardinality(TextPositions) = Cardinality(TextsGiven)
          /\ Positions({"figure.suptitle"}) # {} <=> "title" \in TextsGiven
    /\ Positions({"plt.show"}) = IF pc = "done" THEN {Len(backend)} ELSE {}
    /\ pc = "failed" => error # NoneVal /\ TextPositions = {}

C17_Witness ==
    /\ pc = "done" /\ drawer = "line" /\ Len(charts) >= 2
    /\ TextsGiven = {"title", "ylabel"}
    /\ Cardinality(TextPositions) = 2
    /\ Cardinality(Positions({"plot"})) = Len(charts)
    /\ backend[Len(backend)].call = "plt.show"

LineReturned == drawer = "line" /\ DrawerReturned

\* the positions of the plot calls, in the order of the log
PlotPositions ==
    SelectSeq([i \in DOMAIN backend |-> i], LAMBDA i : backend[i].call = "plot")

\* the fills drawn for series i: those between the plot call of the series
\* before it and its own plot call
FillsOf(i, fill) ==
    {p \in Positions({"fill_between"}) :
        /\ p < PlotPositions[i]
        /\ i > 1 => p > PlotPositions[i - 1]
        /\ backend[p].arg.fill = fill}

YerrOf(i) == get_chart_data("yerr", charts[i]).value

YOf(i) == get_chart_data("y", charts[i]).value

BandRequested == Truthy(chart_config["yerr"])

AreaRequested == Truthy(chart_config["area"])

\* the series has yerr data as long as its y data
HasYerrData(i) ==
    YerrOf(i).type # "NoneType" /\ Len(YerrOf(i).items) = Len(YOf(i).items)

BothFillsWarnings == SelectSeq(warned, LAMBDA w : w = BothFillsWarning)

FillsBeforePlots(banded) ==
    /\ Len(PlotPositions) = Len(charts)
    /\ \A p \in Positions({"fill_between"}) : p < PlotPositions[Len(charts)]
    /\ \A i \in DOMAIN charts :
          /\ Cardinality(FillsOf(i, "yerr")) = IF i \in banded THEN 1 ELSE 0
          /\ Cardinality(FillsOf(i, "area")) = IF AreaRequested THEN 1 ELSE 0

HasYerrArray(i) == YerrOf(i).type = "ndarray" /\ HasYerrData(i)

BandDrawn(i) == BandRequested /\ HasYerrArray(i)

ResolvedColor(i, path) ==
    LET own == DictGet(StyleOfChart(charts[i]), path, NoneVal)
    IN  IF own # NoneVal THEN own ELSE DictGet(config, path, NoneVal)

\* C19: a shared-axis histogram draw call that returns has made exactly one
\* stacked hist call, on the sole plot area, with the data of all series;
\* its color argument is the list of the series' resolved colors in series
\* order when every series resolves a non-null color, and null as soon as
\* the resolved color of one series is unset.
C19_SharedHistColorNullIfAnyUnset ==
    (drawer = "hist" /\ DrawerReturned /\ Shared) =>
        LET resolved == [i \in DOMAIN charts |-> ResolvedColor(i, "plot.hist.color")]
            hists    == CallsOf({"hist"})
        IN  /\ Len(hists) = 1
            /\ hists[1].ax = axes[1]
            /\ hists[1].arg.stacked = "True"
            /\ hists[1].arg.x = [i \in DOMAIN charts |->
                                    get_chart_data("x", charts[i]).value]
            /\ hists[1].arg.kwargs["color"] =
                  IF \A i \in DOMAIN charts : resolved[i] # NoneVal
                  THEN List(resolved) ELSE NoneList

\* the color-cycle color assigned to series i
CycleColor(i) ==
    CycleItem(color_cycle, chart_hash(ChartJson(charts[i]), hash_seed))["color"]

\* the color a series must be drawn in: the resolved one unless it is null
ColorFor(i, path) ==
    IF ResolvedColor(i, path) # NoneVal THEN ResolvedColor(i, path)
    ELSE CycleColor(i)

\* the path of the color each drawing call is given
ColorPath(call) ==
    CASE call = "plot" -> "plot.line.color"
      [] call = "fill_between" -> "plot.area.color"
      [] call \in {"bar", "barh"} -> "plot.bar.color"
      [] call = "hist" -> "plot.hist.color"

\* the series a drawing call at position p of the log is made for: the calls
\* of a kind come in series order, a line's fills right before its plot
SeriesAt(p) ==
    IF backend[p].call = "fill_between"
    THEN 1 + Cardinality({q \in Positions({"plot"}) : q < p})
    ELSE 1 + Cardinality({q \in Positions(DrawCalls) : q < p})

====
